---- MODULE Spec2Model ----
(***************************************************************************)
(* The Lambda@Edge image-processing handler of src/index.js (the handler   *)
(* defined last in the file, lines 336-497) as a state machine.            *)
(*                                                                         *)
(* One behaviour is one invocation.  The steps are the stretches of code   *)
(* between two suspension points (await).  The response status, the origin *)
(* and the uri are fixed in the initial state; every other input (a query  *)
(* parameter, the accept header, the object S3 returns, the buffer the     *)
(* codec produces) is drawn at the statement that first reads it: the      *)
(* handler cannot observe a field before it reads it, so this gives the    *)
(* same behaviours as fixing the whole event beforehand.                   *)
(*                                                                         *)
(* JavaScript strings whose characters the code inspects (toLowerCase,     *)
(* match, parseInt) are sequences of one-character strings; strings that   *)
(* are only compared with === are TLA+ strings.                            *)
(***************************************************************************)
EXTENDS Integers, Sequences, FiniteSets, TLC

(***************************************************************************)
(* JavaScript values.                                                      *)
(***************************************************************************)
Null == [t |-> "null"]

Undefined == [t |-> "undefined"]

NaN == [t |-> "NaN"]

Num(n) == [t |-> "number", v |-> n]

Str(s) == [t |-> "string", v |-> s]

IsStr(x) == x.t = "string"

\* A JavaScript array.
Array(entries) == [t |-> "array", entries |-> entries]

\* JavaScript truthiness of the values above: null, undefined, NaN, 0, "" are falsy.
Truthy(x) ==
  CASE x.t = "number" -> x.v # 0
    [] x.t = "string" -> x.v # <<>>
    [] OTHER -> FALSE

\* a || b
Or(a, b) == IF Truthy(a) THEN a ELSE b

\* The undefined ContentType / status of a plain-string field.
NoString == "<undefined>"

(***************************************************************************)
(* Character strings.                                                      *)
(***************************************************************************)
Upper == <<"A", "B", "C", "D", "E", "F", "G", "H", "I", "J", "K", "L", "M",
           "N", "O", "P", "Q", "R", "S", "T", "U", "V", "W", "X", "Y", "Z">>

Lower == <<"a", "b", "c", "d", "e", "f", "g", "h", "i", "j", "k", "l", "m",
           "n", "o", "p", "q", "r", "s", "t", "u", "v", "w", "x", "y", "z">>

ToLowerChar(c) ==
  IF \E i \in 1..Len(Upper) : Upper[i] = c
    THEN Lower[CHOOSE i \in 1..Len(Upper) : Upper[i] = c]
    ELSE c

\* String.prototype.toLowerCase
ToLowerCase(s) == [i \in 1..Len(s) |-> ToLowerChar(s[i])]

\* s.match(p) for a pattern p without metacharacters: p occurs in s.
Contains(s, p) ==
  \E i \in 1..(Len(s) - Len(p) + 1) : SubSeq(s, i, i + Len(p) - 1) = p

StartsWith(s, p) == Len(s) >= Len(p) /\ SubSeq(s, 1, Len(p)) = p

s_webp == <<"w", "e", "b", "p">>

s_png == <<"p", "n", "g">>

s_jpeg == <<"j", "p", "e", "g">>

s_jpg == <<"j", "p", "g">>

s_original == <<"o", "r", "i", "g", "i", "n", "a", "l">>

s_auto == <<"a", "u", "t", "o">>

s_image_webp == <<"i", "m", "a", "g", "e", "/", "w", "e", "b", "p">>

s_s3 == <<"s", "3">>

s_amazonaws == <<"a", "m", "a", "z", "o", "n", "a", "w", "s">>

s_com == <<"c", "o", "m">>

(***************************************************************************)
(* parseInt(x, 10): leading blanks, an optional sign, then the longest run *)
(* of decimal digits; NaN when there is no digit (null reads as "null").   *)
(***************************************************************************)
DigitChars == <<"0", "1", "2", "3", "4", "5", "6", "7", "8", "9">>

IsDigit(c) == \E i \in 1..Len(DigitChars) : DigitChars[i] = c

DigitVal(c) == (CHOOSE i \in 1..Len(DigitChars) : DigitChars[i] = c) - 1

RECURSIVE SkipBlanks(_)
SkipBlanks(s) == IF s # <<>> /\ Head(s) = " " THEN SkipBlanks(Tail(s)) ELSE s

RECURSIVE DigitRun(_)
DigitRun(s) ==
  IF s # <<>> /\ IsDigit(Head(s)) THEN <<Head(s)>> \o DigitRun(Tail(s)) ELSE <<>>

RECURSIVE DecimalValue(_)
DecimalValue(ds) ==
  IF ds = <<>> THEN 0
  ELSE 10 * DecimalValue(SubSeq(ds, 1, Len(ds) - 1)) + DigitVal(ds[Len(ds)])

ParseInt(x) ==
  IF ~IsStr(x) THEN NaN
  ELSE LET t    == SkipBlanks(x.v)
           neg  == t # <<>> /\ Head(t) = "-"
           sgn  == t # <<>> /\ Head(t) \in {"-", "+"}
           body == IF sgn THEN Tail(t) ELSE t
           ds   == DigitRun(body)
       IN  IF ds = <<>> THEN NaN
           ELSE Num(IF neg THEN 0 - DecimalValue(ds) ELSE DecimalValue(ds))

(***************************************************************************)
(* request.origin.s3.domainName is a string; the model keeps it split at   *)
(* its dots, as the sequence of its labels ("" is one empty label).  Every *)
(* atom of the pattern of extractBucketDetails is either a dot or free of  *)
(* dots, so matching label by label is matching character by character.    *)
(***************************************************************************)
Host(labels) == [t |-> "string", labels |-> labels]

HostTruthy(d) == d.t = "string" /\ d.labels # << <<>> >>

\* The pattern with the service label left unchecked (\.[^.]* for \.s3).
PatternAfterAnyService(L, j) ==
  /\ j + 1 <= Len(L)
  /\ \/ /\ j + 4 <= Len(L)
        /\ ToLowerCase(L[j + 3]) = s_amazonaws
        /\ StartsWith(ToLowerCase(L[j + 4]), s_com)
     \/ /\ j + 3 <= Len(L)
        /\ ToLowerCase(L[j + 2]) = s_amazonaws
        /\ StartsWith(ToLowerCase(L[j + 3]), s_com)

\* The tail \.s3(\.[^.]*)?\.amazonaws\.com (flag i) right after label j of L.
PatternAfter(L, j) ==
  /\ j + 1 <= Len(L)
  /\ ToLowerCase(L[j + 1]) = s_s3
  /\ \/ /\ j + 4 <= Len(L)
        /\ ToLowerCase(L[j + 3]) = s_amazonaws
        /\ StartsWith(ToLowerCase(L[j + 4]), s_com)
     \/ /\ j + 3 <= Len(L)
        /\ ToLowerCase(L[j + 2]) = s_amazonaws
        /\ StartsWith(ToLowerCase(L[j + 3]), s_com)

\* domainName.match(/([^.]*)\.s3(\.[^.]*)?\.amazonaws\.com/i): the leftmost
\* match; group 1 is greedy, so it is the whole label before ".s3".  Group 2,
\* optional and greedy, is "." and the label after s3 when amazonaws.com
\* follows that label, and undefined when it follows s3 directly.
DomainMatch(d) ==
  LET L    == d.labels
      hits == {j \in 1..Len(L) : PatternAfter(L, j)}
  IN  IF hits = {} THEN Null
      ELSE LET j == CHOOSE k \in hits : \A m \in hits : k <= m
               withRegion == /\ j + 4 <= Len(L)
                             /\ ToLowerCase(L[j + 3]) = s_amazonaws
                             /\ StartsWith(ToLowerCase(L[j + 4]), s_com)
           IN  [t |-> "match",
                group1 |-> Str(L[j]),
                group2 |-> IF withRegion THEN Str(<<".">> \o L[j + 2]) ELSE Undefined]

\* shouldSkipProcessing without its status test.
shouldSkipProcessingAnyStatus(req, resp) ==
  IF req.origin = Undefined THEN TRUE
  ELSE IF req.origin.s3 = Undefined THEN TRUE
  ELSE ~HostTruthy(req.origin.s3.domainName)

\* The operands of || are evaluated left to right, up to the first true one.
shouldSkipProcessing(req, resp) ==
  IF "200" # resp.status THEN TRUE
  ELSE IF req.origin = Undefined THEN TRUE
  ELSE IF req.origin.s3 = Undefined THEN TRUE
  ELSE ~HostTruthy(req.origin.s3.domainName)

extractBucketDetails(req) ==
  LET match == DomainMatch(req.origin.s3.domainName)
  IN  IF match = Null \/ ~Truthy(match.group1) THEN Null ELSE match.group1

\* const s3Client = new S3Client(): the client is built once, when the module
\* is loaded, with no configuration.
s3ClientConfiguration == Undefined

\* The allowed types with image/webp among them.
allowedContentTypesWithWebp == {"image/gif", "image/jpeg", "image/png", "image/webp"}

allowedContentTypes == {"image/gif", "image/jpeg", "image/png"}

shouldSkipImageProcessing(objectResponse) ==
  IF objectResponse.ContentType \in {NoString, ""} THEN TRUE
  ELSE objectResponse.ContentType \notin allowedContentTypes

(***************************************************************************)
(* decodeURIComponent(request.uri.substring(1)).  An escape is "%" and two *)
(* hexadecimal digits; the escapes of EscapeTable decode to one character, *)
(* any other "%" raises URIError (a truncated escape, or a byte that is no *)
(* complete UTF-8 sequence).                                               *)
(***************************************************************************)
EscapeTable == { << <<"2", "0">>, " " >>, << <<"2", "F">>, "/" >>, << <<"2", "5">>, "%" >> }

RECURSIVE DecodeChars(_)
DecodeChars(s) ==
  IF s = <<>> THEN [ok |-> TRUE, v |-> <<>>]
  ELSE IF Head(s) # "%"
    THEN LET r == DecodeChars(Tail(s))
         IN  IF r.ok THEN [ok |-> TRUE, v |-> <<Head(s)>> \o r.v] ELSE r
  ELSE IF Len(s) >= 3 /\ \E e \in EscapeTable : e[1] = SubSeq(s, 2, 3)
    THEN LET c == (CHOOSE e \in EscapeTable : e[1] = SubSeq(s, 2, 3))[2]
             r == DecodeChars(SubSeq(s, 4, Len(s)))
         IN  IF r.ok THEN [ok |-> TRUE, v |-> <<c>> \o r.v] ELSE r
  ELSE [ok |-> FALSE, v |-> <<>>]

\* [ok |-> FALSE] stands for the URIError thrown.
decodeURIComponent(s) == DecodeChars(s)

substring1(s) == IF s = <<>> THEN <<>> ELSE Tail(s)

(***************************************************************************)
(* The S3 object body: an async iterable of chunks.  A stream of the SDK   *)
(* yields its chunks once and nothing when iterated again; the iterables   *)
(* of the test suites (a generator function under Symbol.asyncIterator)    *)
(* yield them on every iteration.  drained counts the iterations so far.   *)
(***************************************************************************)
RECURSIVE Concat(_)
Concat(chunks) == IF chunks = <<>> THEN <<>> ELSE Head(chunks) \o Concat(Tail(chunks))

\* The chunks one more iteration of the stream yields.
StreamChunks(stream, drained) ==
  IF stream.replayable \/ drained = 0 THEN stream.chunks ELSE <<>>

\* streamToBuffer returning from inside its loop, with the first chunk.
streamToBufferFirstChunk(stream, drained) ==
  IF StreamChunks(stream, drained) = <<>> THEN <<>>
  ELSE Head(StreamChunks(stream, drained))

\* streamToBuffer: Buffer.concat of the chunks the iteration yields.
streamToBuffer(stream, drained) == Concat(StreamChunks(stream, drained))

\* animated-gif-detector: more than one graphic control block in the bytes.
animated(buffer) == Cardinality({i \in 1..Len(buffer) : buffer[i] = "GCE"}) > 1

(***************************************************************************)
(* The sharp image: its input buffer and the calls configured on it.       *)
(***************************************************************************)
NoImage == [input |-> <<>>, calls |-> <<>>]

\* sharp(buffer) throws "Input Buffer is empty" on an empty buffer.
SharpThrows(buffer) == buffer = <<>>

sharp(buffer) == [input |-> buffer, calls |-> <<>>]

Call(image, call) == [image EXCEPT !.calls = Append(@, call)]

ContentTypeHeader(mime) == Array(<< [key |-> "Content-Type", value |-> mime] >>)

DefaultQuality == 82

\* Math.round(Math.min(Math.max(parseInt(params.get('quality'), 10) || 82, 0), 100))
calculateQuality(quality) ==
  LET rawQuality == Or(ParseInt(quality), Num(DefaultQuality)).v
      lower      == IF rawQuality > 0 THEN rawQuality ELSE 0
  IN  IF lower < 100 THEN lower ELSE 100

\* applyExplicitFormat with the default label on the webp case.
applyExplicitFormatDefaultWebp(image, formatSetting) ==
  LET f == ToLowerCase(formatSetting.v)
  IN  CASE f = s_png ->
             [image |-> Call(image, [op |-> "png", options |-> Undefined]),
              contentType |-> ContentTypeHeader("image/png")]
        [] f \in {s_jpeg, s_jpg} ->
             [image |-> Call(image, [op |-> "jpeg", options |-> Undefined]),
              contentType |-> ContentTypeHeader("image/jpeg")]
        [] OTHER ->
             [image |-> Call(image, [op |-> "webp", options |-> Undefined]),
              contentType |-> ContentTypeHeader("image/webp")]

\* The result of applyExplicitFormat: the image and the content type returned.
applyExplicitFormat(image, formatSetting) ==
  LET f == ToLowerCase(formatSetting.v)
  IN  CASE f = s_webp ->
             [image |-> Call(image, [op |-> "webp", options |-> Undefined]),
              contentType |-> ContentTypeHeader("image/webp")]
        [] f = s_png ->
             [image |-> Call(image, [op |-> "png", options |-> Undefined]),
              contentType |-> ContentTypeHeader("image/png")]
        [] f \in {s_jpeg, s_jpg} ->
             [image |-> Call(image, [op |-> "jpeg", options |-> Undefined]),
              contentType |-> ContentTypeHeader("image/jpeg")]
        [] OTHER -> [image |-> image, contentType |-> Null]

\* The test of line 434 comparing the lower-cased value with 'auto'.
IsExplicitFormatAnyCase(formatSetting) ==
  Truthy(formatSetting) /\ ToLowerCase(formatSetting.v) # s_auto

\* formatSetting && formatSetting !== 'auto'
IsExplicitFormat(formatSetting) ==
  Truthy(formatSetting) /\ formatSetting # Str(s_auto)

\* request.headers['accept']?.[0]?.value: an empty list reads as undefined.
AcceptThrowsNever(accept) == accept # Undefined /\ accept.entries = <<>> /\ FALSE

\* request.headers['accept'] && ... [0].value: reading entry 0 of an empty
\* list gives undefined, and .value of undefined throws TypeError.
AcceptThrows(accept) == accept # Undefined /\ accept.entries = <<>>

AcceptsWebp(accept) ==
  /\ accept # Undefined
  /\ accept.entries # <<>>
  /\ Contains(accept.entries[1].value, s_image_webp)

\* The GIF rule without the assignment to contentType of line 442.
GifToPngKeepingType(r, objectResponse) ==
  IF "image/gif" = objectResponse.ContentType
    THEN [image |-> Call(r.image, [op |-> "png", options |-> Undefined]),
          contentType |-> r.contentType]
    ELSE r

\* The GIF rule of processImageFormat (lines 440-443).
GifToPng(r, objectResponse) ==
  IF "image/gif" = objectResponse.ContentType
    THEN [image |-> Call(r.image, [op |-> "png", options |-> Undefined]),
          contentType |-> ContentTypeHeader("image/png")]
    ELSE r

\* The accept rule of processImageFormat (lines 445-449).
AcceptToWebp(r, accept, quality) ==
  IF AcceptsWebp(accept)
    THEN [image |-> Call(r.image, [op |-> "webp",
                                   options |-> [quality |-> calculateQuality(quality)]]),
          contentType |-> ContentTypeHeader("image/webp")]
    ELSE r

\* processImageFormat passing the quality to an explicit webp as well.
processImageFormatQualityEverywhere(image, objectResponse, accept, quality, formatSetting) ==
  IF IsExplicitFormat(formatSetting)
    THEN IF ToLowerCase(formatSetting.v) = s_webp
           THEN [image |-> Call(image, [op |-> "webp",
                                        options |-> [quality |-> calculateQuality(quality)]]),
                 contentType |-> ContentTypeHeader("image/webp")]
           ELSE applyExplicitFormat(image, formatSetting)
    ELSE AcceptToWebp(GifToPng([image |-> image, contentType |-> Null], objectResponse),
                      accept, quality)

\* processImageFormat, for an accept header whose first entry can be read.
processImageFormat(image, objectResponse, accept, quality, formatSetting) ==
  IF IsExplicitFormat(formatSetting)
    THEN applyExplicitFormat(image, formatSetting)
    ELSE AcceptToWebp(GifToPng([image |-> image, contentType |-> Null], objectResponse),
                      accept, quality)

\* parseInt(params.get(key), 10) || 0
DimensionOrZero(value) == Or(ParseInt(value), Num(0))

\* parseInt(params.get(key), 10) || null
Dimension(value) == Or(ParseInt(value), Null)

\* applyResize with params.get('cropped') for params.has('cropped').
applyResizeCroppedValue(image, width, height, cropped) ==
  Call(image, [op |-> "resize",
               options |-> [width |-> Dimension(width),
                            height |-> Dimension(height),
                            fit |-> IF Truthy(cropped) THEN "cover" ELSE "inside",
                            withoutEnlargement |-> TRUE]])

applyResize(image, width, height, cropped) ==
  Call(image, [op |-> "resize",
               options |-> [width |-> Dimension(width),
                            height |-> Dimension(height),
                            fit |-> IF cropped # Null THEN "cover" ELSE "inside",
                            withoutEnlargement |-> TRUE]])

\* buffer.toString('base64') of n bytes has 4 * ceil(n / 3) characters.
Base64Length(n) == 4 * ((n + 2) \div 3)

ResponseLimit == 1330000

\* isResponseTooLarge with <= for <.
isResponseTooLargeAtLimit(responseBody) == ResponseLimit <= responseBody.length

isResponseTooLarge(responseBody) == ResponseLimit < responseBody.length

(***************************************************************************)
(* The inputs of one invocation.                                           *)
(***************************************************************************)
Statuses == {"200", "404", "304"}

\* my-bucket.s3.amazonaws.com
HostPlain ==
  Host(<< <<"m", "y", "-", "b", "u", "c", "k", "e", "t">>, <<"s", "3">>,
          <<"a", "m", "a", "z", "o", "n", "a", "w", "s">>, <<"c", "o", "m">> >>)

\* Media.S3.eu-west-1.AmazonAWS.Com
HostRegion ==
  Host(<< <<"M", "e", "d", "i", "a">>, <<"S", "3">>,
          <<"e", "u", "-", "w", "e", "s", "t", "-", "1">>,
          <<"A", "m", "a", "z", "o", "n", "A", "W", "S">>, <<"C", "o", "m">> >>)

\* assets.cdn.s3.amazonaws.com.example.net
HostEmbedded ==
  Host(<< <<"a", "s", "s", "e", "t", "s">>, <<"c", "d", "n">>, <<"s", "3">>,
          <<"a", "m", "a", "z", "o", "n", "a", "w", "s">>, <<"c", "o", "m">>,
          <<"e", "x", "a", "m", "p", "l", "e">>, <<"n", "e", "t">> >>)

\* invalid-domain
HostInvalid ==
  Host(<< <<"i", "n", "v", "a", "l", "i", "d", "-", "d", "o", "m", "a", "i", "n">> >>)

\* .s3.amazonaws.com
HostNoBucket ==
  Host(<< <<>>, <<"s", "3">>, <<"a", "m", "a", "z", "o", "n", "a", "w", "s">>,
          <<"c", "o", "m">> >>)

\* b.s3.eu.west.amazonaws.com
HostTwoRegions ==
  Host(<< <<"b">>, <<"s", "3">>, <<"e", "u">>, <<"w", "e", "s", "t">>,
          <<"a", "m", "a", "z", "o", "n", "a", "w", "s">>, <<"c", "o", "m">> >>)

\* b.s4.amazonaws.com
HostOtherService ==
  Host(<< <<"b">>, <<"s", "4">>, <<"a", "m", "a", "z", "o", "n", "a", "w", "s">>,
          <<"c", "o", "m">> >>)

\* the empty string
HostEmpty == Host(<< <<>> >>)

DomainNames ==
  {Undefined, HostEmpty, HostPlain, HostRegion, HostEmbedded, HostInvalid,
   HostNoBucket, HostTwoRegions, HostOtherService}

\* request.origin: missing, a custom origin, or an s3 origin.
Origins ==
  {Undefined, [s3 |-> Undefined]} \cup {[s3 |-> [domainName |-> d]] : d \in DomainNames}

\* /a.jpg, /a%20b.gif and /50%.png (a "%" that starts no escape)
Uris ==
  { <<"/", "a", ".", "j", "p", "g">>,
    <<"/", "a", "%", "2", "0", "b", ".", "g", "i", "f">>,
    <<"/", "5", "0", "%", ".", "p", "n", "g">> }

\* A query parameter the handler has not read yet.
Unread == [t |-> "unread"]

\* params.get('format'): absent, "", original, ORIGINAL, auto, AUTO, webp,
\* WebP, png, PNG, jpeg, jpg, JPG, avif.
Formats ==
  {Null, Str(<<>>), Str(s_original), Str(<<"O", "R", "I", "G", "I", "N", "A", "L">>),
   Str(s_auto), Str(<<"A", "U", "T", "O">>), Str(s_webp), Str(<<"W", "e", "b", "P">>),
   Str(s_png), Str(<<"P", "N", "G">>), Str(s_jpeg), Str(s_jpg), Str(<<"J", "P", "G">>),
   Str(<<"a", "v", "i", "f">>)}

\* params.get('quality'): absent, abc, 0, 50, 100, 999, -50.
Qualities ==
  {Null, Str(<<"a", "b", "c">>), Str(<<"0">>), Str(<<"5", "0">>), Str(<<"1", "0", "0">>),
   Str(<<"9", "9", "9">>), Str(<<"-", "5", "0">>)}

\* params.get('width'): absent, 150, 0, -5, abc, and the key without a value.
Widths ==
  {Null, Str(<<"1", "5", "0">>), Str(<<"0">>), Str(<<"-", "5">>), Str(<<"a", "b", "c">>),
   Str(<<>>)}

\* params.get('height'): absent, 100, 12px, px.
Heights == {Null, Str(<<"1", "0", "0">>), Str(<<"1", "2", "p", "x">>), Str(<<"p", "x">>)}

\* params.get('cropped'): absent, present without a value, present with 1.
Croppeds == {Null, Str(<<>>), Str(<<"1">>)}

AcceptEntry(value) == [key |-> "Accept", value |-> value]

\* text/html
s_text_html == <<"t", "e", "x", "t", "/", "h", "t", "m", "l">>

\* request.headers['accept']: missing; an empty list; image/webp,image/*;
\* text/html; text/html then image/webp as a second entry;
\* text/html,image/webp in one entry; IMAGE/WEBP.
Accepts ==
  {Undefined,
   Array(<<>>),
   Array(<< AcceptEntry(s_image_webp \o <<",", "i", "m", "a", "g", "e", "/", "*">>) >>),
   Array(<< AcceptEntry(s_text_html) >>),
   Array(<< AcceptEntry(s_text_html), AcceptEntry(s_image_webp) >>),
   Array(<< AcceptEntry(s_text_html \o <<",">> \o s_image_webp) >>),
   Array(<< AcceptEntry(<<"I", "M", "A", "G", "E", "/", "W", "E", "B", "P">>) >>)}

\* The chunks of the object bodies S3 serves.
StillGifChunks == << <<"GIF89a", "GCE">>, <<"DATA">> >>

AnimatedGifChunks == << <<"GIF89a", "GCE", "DATA">>, <<"GCE", "DATA">> >>

PlainChunks == << <<"HEAD">>, <<"DATA">> >>

\* What s3Client.send resolves with.
Objects ==
  {[ContentType |-> ct, Body |-> [chunks |-> PlainChunks, replayable |-> FALSE]] :
      ct \in {NoString, "", "application/pdf", "image/webp", "IMAGE/PNG"}}
  \cup
  {[ContentType |-> ct, Body |-> [chunks |-> c, replayable |-> r]] :
      ct \in {"image/jpeg", "image/png"}, c \in {PlainChunks}, r \in BOOLEAN}
  \cup
  {[ContentType |-> "image/jpeg", Body |-> [chunks |-> <<>>, replayable |-> FALSE]]}
  \cup
  {[ContentType |-> "image/gif", Body |-> [chunks |-> c, replayable |-> r]] :
      c \in {StillGifChunks, AnimatedGifChunks}, r \in BOOLEAN}

NoObject == [ContentType |-> NoString, Body |-> [chunks |-> <<>>, replayable |-> FALSE]]

\* The byte lengths of the buffers image.toBuffer() resolves with: a small
\* one, the longest whose base64 form is within the limit, and one more.
OutputLengths == {11, 997500, 997501}

\* The response CloudFront hands over: no body yet.
Responses ==
  {[status |-> st,
    statusDescription |-> "OK",
    headers |-> [name \in {"content-type", "etag"} |->
                   IF name = "content-type"
                     THEN Array(<< [key |-> "Content-Type", value |-> "image/jpeg"] >>)
                     ELSE Array(<< [key |-> "ETag", value |-> "abc123"] >>)],
    body |-> Undefined,
    bodyEncoding |-> Undefined] : st \in Statuses}

(***************************************************************************)
(* The state of one invocation.                                            *)
(***************************************************************************)
VARIABLES
  pc,             \* where the handler stands
  request,        \* event.Records[0].cf.request: uri and origin
  params,         \* the query parameters read so far
  accept,         \* request.headers['accept'], once read
  response,       \* event.Records[0].cf.response, the object the handler mutates
  original,       \* the response as it was handed to the handler
  sent,           \* the GetObjectCommands sent to S3
  objectResponse, \* what the fetch resolved with
  drained,        \* how many times objectResponse.Body has been iterated
  image,          \* the sharp image
  contentType,    \* the local variable contentType
  output,         \* the buffer toBuffer() resolved with
  calls,          \* the arguments of every callback call
  logged,         \* the errors written by console.log
  parked          \* the locals of a second invocation that is not running

vars ==
  <<pc, request, params, accept, response, original, sent, objectResponse, drained,
    image, contentType, output, calls, logged, parked>>

\* No second invocation.
NoInvocation == [invocation |-> 2, pc |-> "none"]

NoOutput == [length |-> 0, image |-> NoImage]

Init ==
  /\ pc = "start"
  /\ request \in [uri : Uris, origin : Origins]
  /\ params = [format |-> Unread, quality |-> Unread, width |-> Unread,
               height |-> Unread, cropped |-> Unread]
  /\ accept = Unread
  /\ response \in Responses
  /\ original = response
  /\ sent = <<>>
  /\ objectResponse = NoObject
  /\ drained = 0
  /\ image = NoImage
  /\ contentType = Null
  /\ output = NoOutput
  /\ calls = <<>>
  /\ logged = <<>>
  /\ parked = NoInvocation

\* return callback(null, response)
Callback ==
  /\ calls' = Append(calls, [error |-> Null, response |-> response'])
  /\ pc' = "done"

\* catch (error) { console.log(error); callback(null, response); }
CatchAndCallback(error) ==
  /\ logged' = Append(logged, error)
  /\ pc' = "done"
  /\ calls' = Append(calls, [error |-> Null, response |-> response])

\* catch (error) { console.log(error); }
Catch(error) ==
  /\ logged' = Append(logged, error)
  /\ pc' = "done"
  /\ UNCHANGED calls

(***************************************************************************)
(* Lines 338-357: up to the first suspension point, the fetch.             *)
(***************************************************************************)
\* Reading .s3 or .domainName.match of undefined throws TypeError.
ExtractThrows(req) ==
  IF req.origin = Undefined THEN TRUE
  ELSE IF req.origin.s3 = Undefined THEN TRUE
  ELSE req.origin.s3.domainName = Undefined

ObjectKey(req) == decodeURIComponent(substring1(req.uri))

\* if (shouldSkipProcessing(request, response)) return callback(null, response);
SkipProcessing ==
  /\ pc = "start"
  /\ shouldSkipProcessing(request, response)
  /\ response' = response
  /\ Callback
  /\ UNCHANGED <<parked, request, params, accept, original, sent, objectResponse, drained,
                 image, contentType, output, logged>>

\* if (!bucketDetails) return callback(null, response);
NoBucketDetails ==
  /\ pc = "start"
  /\ ~shouldSkipProcessing(request, response)
  /\ ~ExtractThrows(request)
  /\ ~Truthy(extractBucketDetails(request))
  /\ response' = response
  /\ Callback
  /\ UNCHANGED <<parked, request, params, accept, original, sent, objectResponse, drained,
                 image, contentType, output, logged>>

\* An exception before the fetch is sent: the TypeError of extractBucketDetails
\* or the URIError of decodeURIComponent.
ThrowBeforeFetch ==
  /\ pc = "start"
  /\ ~shouldSkipProcessing(request, response)
  /\ IF ExtractThrows(request) THEN TRUE
     ELSE Truthy(extractBucketDetails(request)) /\ ~ObjectKey(request).ok
  /\ Catch(IF ExtractThrows(request) THEN "TypeError" ELSE "URIError")
  /\ UNCHANGED <<parked, request, params, accept, response, original, sent, objectResponse,
                 drained, image, contentType, output>>

\* const formatSetting = params.get('format');
\* const objectResponse = await fetchOriginalImage(bucket, key);
SendFetch ==
  /\ pc = "start"
  /\ ~shouldSkipProcessing(request, response)
  /\ ~ExtractThrows(request)
  /\ Truthy(extractBucketDetails(request))
  /\ ObjectKey(request).ok
  /\ \E formatSetting \in Formats : params' = [params EXCEPT !.format = formatSetting]
  /\ sent' = Append(sent, [Bucket |-> extractBucketDetails(request).v,
                           Key |-> ObjectKey(request).v,
                           client |-> s3ClientConfiguration])
  /\ pc' = "fetch"
  /\ UNCHANGED <<parked, request, accept, response, original, objectResponse, drained, image,
                 contentType, output, calls, logged>>

(***************************************************************************)
(* Lines 357-361: the fetch settles.                                       *)
(***************************************************************************)
\* A rejected fetch sent once more before giving up.
FetchRejectsAndRetries ==
  /\ pc = "fetch"
  /\ sent' = IF Len(sent) < 2 THEN Append(sent, sent[1]) ELSE sent
  /\ IF Len(sent) < 2
       THEN UNCHANGED <<pc, calls, logged>>
       ELSE Catch("S3 Error")
  /\ UNCHANGED <<parked, request, params, accept, response, original, objectResponse,
                 drained, image, contentType, output>>

FetchRejects ==
  /\ pc = "fetch"
  /\ Catch("S3 Error")
  /\ UNCHANGED <<parked, request, params, accept, response, original, sent, objectResponse,
                 drained, image, contentType, output>>

\* if (shouldSkipImageProcessing(objectResponse, allowedContentTypes)) return callback(...)
FetchResolvesUnsupported ==
  /\ pc = "fetch"
  /\ \E obj \in Objects :
       /\ shouldSkipImageProcessing(obj)
       /\ objectResponse' = obj
  /\ response' = response
  /\ Callback
  /\ UNCHANGED <<parked, request, params, accept, original, sent, drained, image, contentType,
                 output, logged>>

\* The content type is allowed: a GIF goes on to the animation test (which
\* awaits a first streamToBuffer), any other image to line 371.
FetchResolvesImage ==
  /\ pc = "fetch"
  /\ \E obj \in Objects :
       /\ ~shouldSkipImageProcessing(obj)
       /\ objectResponse' = obj
       /\ pc' = IF "image/gif" = obj.ContentType THEN "animated" ELSE "body"
  /\ UNCHANGED <<parked, request, params, accept, response, original, sent, drained, image,
                 contentType, output, calls, logged>>

(***************************************************************************)
(* Lines 363-369: animated(await streamToBuffer(objectResponse.Body)).     *)
(***************************************************************************)
\* The animation test on the first chunk of the stream alone.
isAnimatedGifFirstChunk(obj, n) ==
  "image/gif" = obj.ContentType /\ animated(Head(StreamChunks(obj.Body, n)))

isAnimatedGif(obj, n) ==
  "image/gif" = obj.ContentType /\ animated(streamToBuffer(obj.Body, n))

AnimatedGif ==
  /\ pc = "animated"
  /\ isAnimatedGif(objectResponse, drained)
  /\ drained' = drained + 1
  /\ response' = response
  /\ Callback
  /\ UNCHANGED <<parked, request, params, accept, original, sent, objectResponse, image,
                 contentType, output, logged>>

StillGif ==
  /\ pc = "animated"
  /\ ~isAnimatedGif(objectResponse, drained)
  /\ drained' = drained + 1
  /\ pc' = "body"
  /\ UNCHANGED <<parked, request, params, accept, response, original, sent, objectResponse,
                 image, contentType, output, calls, logged>>

(***************************************************************************)
(* Lines 371-372: const objectBody = await streamToBuffer(...);            *)
(*                const image = sharp(objectBody);                         *)
(***************************************************************************)
CreateImage ==
  /\ pc = "body"
  /\ LET objectBody == streamToBuffer(objectResponse.Body, drained)
     IN  IF SharpThrows(objectBody)
           THEN /\ Catch("Input Buffer is empty")
                /\ UNCHANGED image
           ELSE /\ image' = sharp(objectBody)
                /\ pc' = "format"
                /\ UNCHANGED <<calls, logged>>
  /\ drained' = drained + 1
  /\ UNCHANGED <<parked, request, params, accept, response, original, sent, objectResponse,
                 contentType, output>>

(***************************************************************************)
(* Lines 373-379: the format decision.                                     *)
(***************************************************************************)
preserveOriginalFormat(formatSetting) == formatSetting = Str(s_original)

\* if (!preserveOriginalFormat) is false: contentType stays null.
PreserveFormat ==
  /\ pc = "format"
  /\ preserveOriginalFormat(params.format)
  /\ pc' = "resize"
  /\ UNCHANGED <<parked, request, params, accept, response, original, sent, objectResponse,
                 drained, image, contentType, output, calls, logged>>

\* processImageFormat returns applyExplicitFormat(image, formatSetting): neither
\* the accept header nor the quality parameter is read.
ExplicitFormat ==
  /\ pc = "format"
  /\ ~preserveOriginalFormat(params.format)
  /\ IsExplicitFormat(params.format)
  /\ LET r == processImageFormat(image, objectResponse, accept, params.quality, params.format)
     IN  /\ image' = r.image
         /\ contentType' = r.contentType
  /\ pc' = "resize"
  /\ UNCHANGED <<parked, request, params, accept, response, original, sent, objectResponse,
                 drained, output, calls, logged>>

\* processImageFormat with no format or format=auto: the accept header is
\* read, and the quality parameter when its first entry names image/webp.
NegotiateFormat ==
  /\ pc = "format"
  /\ ~preserveOriginalFormat(params.format)
  /\ ~IsExplicitFormat(params.format)
  /\ \E a \in Accepts :
       /\ accept' = a
       /\ IF AcceptThrows(a)
            THEN \* image.png() of the GIF rule has run when the read throws
                 /\ image' = GifToPng([image |-> image, contentType |-> Null],
                                      objectResponse).image
                 /\ Catch("TypeError")
                 /\ UNCHANGED <<params, contentType>>
            ELSE /\ \E q \in (IF AcceptsWebp(a) THEN Qualities ELSE {Unread}) :
                      /\ params' = [params EXCEPT !.quality = q]
                      /\ LET r == processImageFormat(image, objectResponse, a, q,
                                                     params.format)
                         IN  /\ image' = r.image
                             /\ contentType' = r.contentType
                 /\ pc' = "resize"
                 /\ UNCHANGED <<calls, logged>>
  /\ UNCHANGED <<parked, request, response, original, sent, objectResponse, drained, output>>

(***************************************************************************)
(* Lines 381-385: the resize, then image.toBuffer() is awaited.            *)
(***************************************************************************)
ConfigureResize ==
  /\ pc = "resize"
  /\ \E w \in Widths, h \in Heights :
       IF w # Null \/ h # Null
         THEN \E c \in Croppeds :
                /\ params' = [params EXCEPT !.width = w, !.height = h, !.cropped = c]
                /\ image' = applyResize(image, w, h, c)
         ELSE /\ params' = [params EXCEPT !.width = w, !.height = h]
              /\ image' = image
  /\ pc' = "toBuffer"
  /\ UNCHANGED <<parked, request, accept, response, original, sent, objectResponse, drained,
                 contentType, output, calls, logged>>

(***************************************************************************)
(* Lines 385-399: the codec settles, the size check, the response.         *)
(***************************************************************************)
\* response.bodyEncoding = 'base64' assigned before toBuffer is awaited.
ToBufferRejectsAfterEncoding ==
  /\ pc = "toBuffer"
  /\ response' = [response EXCEPT !.bodyEncoding = Str("base64")]
  /\ Catch("codec error")
  /\ UNCHANGED <<parked, request, params, accept, original, sent, objectResponse,
                 drained, image, contentType, output>>

ToBufferRejects ==
  /\ pc = "toBuffer"
  /\ Catch("codec error")
  /\ UNCHANGED <<parked, request, params, accept, response, original, sent, objectResponse,
                 drained, image, contentType, output>>

\* buffer.toString('base64')
ResponseBody(buffer) ==
  [t |-> "base64", length |-> Base64Length(buffer.length), of |-> buffer.image]

\* The size check placed after the assignments of lines 392-397.
TooLargeAfterMutation ==
  /\ pc = "toBuffer"
  /\ \E n \in OutputLengths :
       /\ output' = [length |-> n, image |-> image]
       /\ isResponseTooLarge(ResponseBody(output'))
  /\ response' = [response EXCEPT
                    !.headers = IF contentType # Null
                                  THEN [@ EXCEPT !["content-type"] = contentType]
                                  ELSE @,
                    !.body = ResponseBody(output'),
                    !.bodyEncoding = Str("base64")]
  /\ Callback
  /\ UNCHANGED <<parked, request, params, accept, original, sent, objectResponse, drained,
                 image, contentType, logged>>

\* The size check without its return: callback(null, response), and then
\* lines 392-399 all the same.
TooLargeWithoutReturn ==
  /\ pc = "toBuffer"
  /\ \E n \in OutputLengths :
       /\ output' = [length |-> n, image |-> image]
       /\ isResponseTooLarge(ResponseBody(output'))
  /\ response' = [response EXCEPT
                    !.headers = IF contentType # Null
                                  THEN [@ EXCEPT !["content-type"] = contentType]
                                  ELSE @,
                    !.body = ResponseBody(output'),
                    !.bodyEncoding = Str("base64")]
  /\ calls' = calls \o << [error |-> Null, response |-> response],
                          [error |-> Null, response |-> response'] >>
  /\ pc' = "done"
  /\ UNCHANGED <<parked, request, params, accept, original, sent, objectResponse, drained,
                 image, contentType, logged>>

\* if (isResponseTooLarge(responseBody)) return callback(null, response);
TooLarge ==
  /\ pc = "toBuffer"
  /\ \E n \in OutputLengths :
       /\ output' = [length |-> n, image |-> image]
       /\ isResponseTooLarge(ResponseBody(output'))
  /\ response' = response
  /\ Callback
  /\ UNCHANGED <<parked, request, params, accept, original, sent, objectResponse, drained,
                 image, contentType, logged>>

\* Lines 392-397 with response.headers = { 'content-type': contentType }.
TransformedReplacingHeaders(resp, ct, responseBody) ==
  [resp EXCEPT !.headers = IF ct # Null THEN [name \in {"content-type"} |-> ct] ELSE @,
               !.body = responseBody,
               !.bodyEncoding = Str("base64")]

\* Lines 392-397 with the content type assigned without the test of line 392.
TransformedAlwaysContentType(resp, ct, responseBody) ==
  [resp EXCEPT !.headers = [@ EXCEPT !["content-type"] = ct],
               !.body = responseBody,
               !.bodyEncoding = Str("base64")]

\* Lines 392-397.
Transformed(resp, ct, responseBody) ==
  [resp EXCEPT !.headers = IF ct # Null THEN [@ EXCEPT !["content-type"] = ct] ELSE @,
               !.body = responseBody,
               !.bodyEncoding = Str("base64")]

Deliver ==
  /\ pc = "toBuffer"
  /\ \E n \in OutputLengths :
       /\ output' = [length |-> n, image |-> image]
       /\ ~isResponseTooLarge(ResponseBody(output'))
  /\ response' = Transformed(response, contentType, ResponseBody(output'))
  /\ Callback
  /\ UNCHANGED <<parked, request, params, accept, original, sent, objectResponse, drained,
                 image, contentType, logged>>

Next ==
  \/ SkipProcessing
  \/ NoBucketDetails
  \/ ThrowBeforeFetch
  \/ SendFetch
  \/ FetchRejects
  \/ FetchResolvesUnsupported
  \/ FetchResolvesImage
  \/ AnimatedGif
  \/ StillGif
  \/ CreateImage
  \/ PreserveFormat
  \/ ExplicitFormat
  \/ NegotiateFormat
  \/ ConfigureResize
  \/ ToBufferRejects
  \/ TooLarge
  \/ Deliver

Spec == Init /\ [][Next]_vars

(***************************************************************************)
(* Two invocations in one process.  The handler's parameters and locals    *)
(* belong to the invocation; the module keeps s3Client and                 *)
(* allowedContentTypes, which no statement assigns, and the process keeps  *)
(* the console.  One invocation runs until it awaits or ends; the other,   *)
(* parked with its locals, may run then.                                   *)
(***************************************************************************)
\* The parameters and locals of the running invocation.
Invocation ==
  [invocation |-> IF parked.invocation = 1 THEN 2 ELSE 1,
   pc |-> pc, request |-> request, params |-> params, accept |-> accept,
   response |-> response, original |-> original, sent |-> sent,
   objectResponse |-> objectResponse, drained |-> drained, image |-> image,
   contentType |-> contentType, output |-> output, calls |-> calls]

\* The awaits of lines 357, 365, 371 and 385.
SuspensionPoints == {"fetch", "animated", "body", "toBuffer"}

\* The events of the two invocations: /a.jpg on my-bucket, /a%20b.gif on
\* Media in eu-west-1, /50%.png on my-bucket, /a.jpg on invalid-domain.
PairRequests ==
  {[uri |-> <<"/", "a", ".", "j", "p", "g">>, origin |-> [s3 |-> [domainName |-> HostPlain]]],
   [uri |-> <<"/", "a", "%", "2", "0", "b", ".", "g", "i", "f">>,
    origin |-> [s3 |-> [domainName |-> HostRegion]]],
   [uri |-> <<"/", "5", "0", "%", ".", "p", "n", "g">>,
    origin |-> [s3 |-> [domainName |-> HostPlain]]],
   [uri |-> <<"/", "a", ".", "j", "p", "g">>, origin |-> [s3 |-> [domainName |-> HostInvalid]]]}

PairFormats == {Null, Str(s_original), Str(s_webp), Str(s_png)}

PairQualities == {Null, Str(<<"5", "0">>)}

PairWidths == {Null, Str(<<"1", "5", "0">>)}

PairAccepts ==
  {Undefined, Array(<<>>),
   Array(<< AcceptEntry(s_image_webp \o <<",", "i", "m", "a", "g", "e", "/", "*">>) >>)}

PairObjects ==
  {[ContentType |-> "application/pdf", Body |-> [chunks |-> PlainChunks, replayable |-> FALSE]],
   [ContentType |-> "image/jpeg", Body |-> [chunks |-> PlainChunks, replayable |-> FALSE]],
   [ContentType |-> "image/gif", Body |-> [chunks |-> StillGifChunks, replayable |-> TRUE]],
   [ContentType |-> "image/gif", Body |-> [chunks |-> StillGifChunks, replayable |-> FALSE]],
   [ContentType |-> "image/gif", Body |-> [chunks |-> AnimatedGifChunks, replayable |-> FALSE]]}

PairOutputLengths == {11, 997501}

\* The inputs the two invocations are given.
PairCase ==
  /\ params.format \in {Unread} \cup PairFormats
  /\ params.quality \in {Unread} \cup PairQualities
  /\ params.width \in {Unread} \cup PairWidths
  /\ params.height \in {Unread, Null}
  /\ params.cropped \in {Unread, Null}
  /\ accept \in {Unread} \cup PairAccepts
  /\ objectResponse \in {NoObject} \cup PairObjects
  /\ output = NoOutput \/ output.length \in PairOutputLengths

\* An invocation that has not started.
Started(req, resp) ==
  [invocation |-> 2,
   pc |-> "start", request |-> req,
   params |-> [format |-> Unread, quality |-> Unread, width |-> Unread,
               height |-> Unread, cropped |-> Unread],
   accept |-> Unread, response |-> resp, original |-> resp, sent |-> <<>>,
   objectResponse |-> NoObject, drained |-> 0, image |-> NoImage,
   contentType |-> Null, output |-> NoOutput, calls |-> <<>>]

InitPair ==
  /\ \E first \in PairRequests, second \in PairRequests, r1 \in Responses, r2 \in Responses :
       /\ first # second
       /\ pc = "start"
       /\ request = first
       /\ response = r1
       /\ original = r1
       /\ parked = Started(second, r2)
  /\ params = [format |-> Unread, quality |-> Unread, width |-> Unread,
               height |-> Unread, cropped |-> Unread]
  /\ accept = Unread
  /\ sent = <<>>
  /\ objectResponse = NoObject
  /\ drained = 0
  /\ image = NoImage
  /\ contentType = Null
  /\ output = NoOutput
  /\ calls = <<>>
  /\ logged = <<>>

\* The other invocation resumes, with let contentType declared in the module.
SwitchSharingContentType ==
  /\ pc \in SuspensionPoints \cup {"done"}
  /\ parked.pc # "done"
  /\ parked' = Invocation
  /\ pc' = parked.pc
  /\ request' = parked.request
  /\ params' = parked.params
  /\ accept' = parked.accept
  /\ response' = parked.response
  /\ original' = parked.original
  /\ sent' = parked.sent
  /\ objectResponse' = parked.objectResponse
  /\ drained' = parked.drained
  /\ image' = parked.image
  /\ output' = parked.output
  /\ calls' = parked.calls
  /\ UNCHANGED <<contentType, logged>>

\* The running invocation awaits or has ended, and the other invocation
\* runs: it finds its own parameters and locals, and the console of the
\* process.
Switch ==
  /\ pc \in SuspensionPoints \cup {"done"}
  /\ parked.pc # "done"
  /\ parked' = Invocation
  /\ pc' = parked.pc
  /\ request' = parked.request
  /\ params' = parked.params
  /\ accept' = parked.accept
  /\ response' = parked.response
  /\ original' = parked.original
  /\ sent' = parked.sent
  /\ objectResponse' = parked.objectResponse
  /\ drained' = parked.drained
  /\ image' = parked.image
  /\ contentType' = parked.contentType
  /\ output' = parked.output
  /\ calls' = parked.calls
  /\ UNCHANGED logged

NextPair ==
  \/ SkipProcessing /\ PairCase'
  \/ NoBucketDetails /\ PairCase'
  \/ ThrowBeforeFetch /\ PairCase'
  \/ SendFetch /\ PairCase'
  \/ FetchRejects /\ PairCase'
  \/ FetchResolvesUnsupported /\ PairCase'
  \/ FetchResolvesImage /\ PairCase'
  \/ AnimatedGif /\ PairCase'
  \/ StillGif /\ PairCase'
  \/ CreateImage /\ PairCase'
  \/ PreserveFormat /\ PairCase'
  \/ ExplicitFormat /\ PairCase'
  \/ NegotiateFormat /\ PairCase'
  \/ ConfigureResize /\ PairCase'
  \/ ToBufferRejects /\ PairCase'
  \/ TooLarge /\ PairCase'
  \/ Deliver /\ PairCase'
  \/ Switch

SpecPair == InitPair /\ [][NextPair]_vars

(***************************************************************************)
(* Vocabulary of the properties.                                           *)
(***************************************************************************)
Done == pc = "done"

\* The callback was called once, with the response object, and no field of
\* that object differs from the response the handler was given.
DeliveredUnchanged ==
  /\ calls = << [error |-> Null, response |-> original] >>
  /\ response = original

\* The callback was called once with the response object, whose body and
\* bodyEncoding are set.
DeliveredTransformed ==
  /\ calls = << [error |-> Null, response |-> response] >>
  /\ response.body # Undefined
  /\ response.body.t = "base64"
  /\ response.bodyEncoding = Str("base64")

Fetched == objectResponse # NoObject

\* All the bytes of the fetched object.
ObjectBytes == Concat(objectResponse.Body.chunks)

\* The encode operations configured on an image, in call order.
EncodeCalls(img) == SelectSeq(img.calls, LAMBDA c : c.op \in {"png", "webp", "jpeg"})

ResizeCalls(img) == SelectSeq(img.calls, LAMBDA c : c.op = "resize")

(***************************************************************************)
(* C1: when the response status is not the string "200" the handler calls  *)
(* the callback with the response object it was given, no field changed,   *)
(* and it does so without fetching anything.                               *)
(***************************************************************************)
ThmC1 ==
  original.status # "200" =>
    /\ response = original
    /\ sent = <<>>
    /\ pc \in {"start", "done"}
    /\ Done => DeliveredUnchanged

WitC1 ==
  /\ Done
  /\ original.status = "404"
  /\ request.origin # Undefined
  /\ DeliveredUnchanged

(***************************************************************************)
(* C2: with status "200", when the request has no origin, no s3 origin, a  *)
(* missing or empty domainName, or a domainName in which the pattern       *)
(* <bucket>.s3[.<region>].amazonaws.com does not occur with a non-empty    *)
(* bucket label, the handler calls the callback with the unchanged         *)
(* response and fetches nothing.  "Occurs" is what String.match decides:   *)
(* the pattern is searched for, case-insensitively, anywhere in the name.  *)
(***************************************************************************)
\* The labels after label j read s3, at most one region label, amazonaws and
\* a label that begins with com, in any letter case.
StorageSuffixAfter(L, j) ==
  LET rest == [i \in 1..(Len(L) - j) |-> ToLowerCase(L[j + i])]
  IN  /\ Len(rest) >= 3
      /\ rest[1] = s_s3
      /\ \/ rest[2] = s_amazonaws /\ StartsWith(rest[3], s_com)
         \/ Len(rest) >= 4 /\ rest[3] = s_amazonaws /\ StartsWith(rest[4], s_com)

\* Some non-empty label of the host is followed by .s3[.<region>].amazonaws.com
HasBucketPattern(d) ==
  \E j \in 1..Len(d.labels) : d.labels[j] # <<>> /\ StorageSuffixAfter(d.labels, j)

NoStorageHost(req) ==
  IF req.origin = Undefined THEN TRUE
  ELSE IF req.origin.s3 = Undefined THEN TRUE
  ELSE IF req.origin.s3.domainName = Undefined THEN TRUE
  ELSE IF req.origin.s3.domainName.labels = << <<>> >> THEN TRUE
  ELSE ~HasBucketPattern(req.origin.s3.domainName)

ThmC4 ==
  (Fetched /\ objectResponse.ContentType = "image/gif" /\ animated(ObjectBytes)) =>
    /\ response = original
    /\ pc \in {"animated", "done"}
    /\ Done => DeliveredUnchanged
    /\ accept = Unread
    /\ params.width = Unread /\ params.height = Unread
    /\ params.quality = Unread /\ params.cropped = Unread

WitC4 ==
  /\ Done
  /\ Fetched
  /\ objectResponse.ContentType = "image/gif"
  /\ animated(ObjectBytes)
  /\ ~objectResponse.Body.replayable
  /\ params.format = Str(s_webp)
  /\ DeliveredUnchanged

(***************************************************************************)
(* C5: when the fetched object is an image/gif that is not animated and    *)
(* the format parameter is original, the invocation ends with the callback *)
(* called with the unchanged response: body and bodyEncoding are not set.  *)
(***************************************************************************)
StillGifObject ==
  /\ Fetched
  /\ objectResponse.ContentType = "image/gif"
  /\ ~animated(ObjectBytes)

ClaimC5 ==
  (Done /\ StillGifObject /\ params.format = Str(s_original)) => DeliveredUnchanged

(***************************************************************************)
(* C6 as claimed: every image/jpeg or image/png object requested with      *)
(* format=original ends transformed, with no encode operation, with the    *)
(* headers the response came with, and resized when width or height is     *)
(* present.                                                                *)
(***************************************************************************)
JpegOrPngOriginal ==
  /\ Fetched
  /\ objectResponse.ContentType \in {"image/jpeg", "image/png"}
  /\ params.format = Str(s_original)

ResizeRequested == params.width # Null \/ params.height # Null

ClaimC6 ==
  (Done /\ JpegOrPngOriginal) =>
    /\ DeliveredTransformed
    /\ EncodeCalls(image) = <<>>
    /\ response.headers = original.headers
    /\ ResizeRequested => Len(ResizeCalls(image)) = 1

(***************************************************************************)
(* C6 amended: for an image/jpeg or image/png object requested with        *)
(* format=original no encode operation is ever configured, the content     *)
(* type stays null, the accept header is not read and the headers of the   *)
(* response are never touched; once the parameters are read the image      *)
(* carries one resize exactly when width or height is present; and when    *)
(* the codec yields an output whose base64 form is within the limit, the   *)
(* invocation ends with the response transformed: body set to that base64  *)
(* text, bodyEncoding base64.                                              *)
(***************************************************************************)
OutputWithinLimit ==
  output # NoOutput /\ ~isResponseTooLarge(ResponseBody(output))

ThmC6 ==
  JpegOrPngOriginal =>
    /\ accept = Unread
    /\ contentType = Null
    /\ EncodeCalls(image) = <<>>
    /\ response.headers = original.headers
    /\ params.width # Unread =>
         Len(ResizeCalls(image)) = (IF ResizeRequested THEN 1 ELSE 0)
    /\ (Done /\ OutputWithinLimit) =>
         /\ DeliveredTransformed
         /\ response.body = ResponseBody(output)
         /\ output.image = image

\* A JPEG with format=original&width=150&height=100 was delivered resized.
WitC6 ==
  /\ Done
  /\ JpegOrPngOriginal
  /\ objectResponse.ContentType = "image/jpeg"
  /\ params.width = Str(<<"1", "5", "0">>)
  /\ params.height = Str(<<"1", "0", "0">>)
  /\ Len(ResizeCalls(image)) = 1
  /\ DeliveredTransformed

(***************************************************************************)
(* C7: for an eligible object (an allowed content type, not an animated    *)
(* GIF, a body that is not empty) and a format value that is webp, png,    *)
(* jpeg or jpg in any letter case, the image carries exactly that one      *)
(* encode operation, the content type is the matching MIME header, the     *)
(* accept header is never read, and an output within the size limit is     *)
(* delivered with that content-type header.                                *)
(***************************************************************************)
Eligible ==
  /\ Fetched
  /\ objectResponse.ContentType \in {"image/gif", "image/jpeg", "image/png"}
  /\ objectResponse.ContentType = "image/gif" => ~animated(ObjectBytes)
  /\ ObjectBytes # <<>>

\* The encoding a format value names, ignoring case; "none" when it names none.
EncodingNamed(formatSetting) ==
  IF ~IsStr(formatSetting) THEN "none"
  ELSE LET f == ToLowerCase(formatSetting.v)
       IN  IF f = s_webp THEN "webp"
           ELSE IF f = s_png THEN "png"
           ELSE IF f \in {s_jpeg, s_jpg} THEN "jpeg"
           ELSE "none"

MimeHeader(encoding) == Array(<< [key |-> "Content-Type", value |-> "image/" \o encoding] >>)

\* The names of the encode operations configured on the image, in call order.
EncodeOps == [i \in 1..Len(EncodeCalls(image)) |-> EncodeCalls(image)[i].op]

ClaimC7 ==
  (Done /\ Eligible /\ EncodingNamed(params.format) # "none") =>
    /\ EncodeOps = << EncodingNamed(params.format) >>
    /\ contentType = MimeHeader(EncodingNamed(params.format))
    /\ accept = Unread
    /\ OutputWithinLimit =>
         /\ DeliveredTransformed
         /\ response.headers["content-type"] = MimeHeader(EncodingNamed(params.format))

(***************************************************************************)
(* C8 as claimed: for an explicit format value that is none of original,   *)
(* auto, webp, png, jpeg, jpg, the format decision (the encode operations  *)
(* and the content type) is the one made when no format parameter is       *)
(* given, whatever the accept header and the quality are.                  *)
(***************************************************************************)
\* A non-empty value that is not original or auto, nor webp, png, jpeg or
\* jpg in any letter case.
UnrecognizedFormat(formatSetting) ==
  IF ~IsStr(formatSetting) THEN FALSE
  ELSE /\ formatSetting.v # <<>>
       /\ formatSetting.v \notin {s_original, s_auto}
       /\ EncodingNamed(formatSetting) = "none"

FormatAbsentOrAuto == params.format \in {Null, Str(s_auto)}

\* The first entry of the accept header contains image/webp.
FirstEntryHasWebp ==
  IF accept \in {Unread, Undefined} THEN FALSE
  ELSE IF accept.entries = <<>> THEN FALSE
  ELSE Contains(accept.entries[1].value, s_image_webp)

AcceptWithoutWebp ==
  IF accept \in {Unread, Undefined} THEN TRUE
  ELSE accept.entries # <<>> /\ ~FirstEntryHasWebp

ClaimC9 ==
  (Done /\ StillGifObject /\ FormatAbsentOrAuto /\ AcceptWithoutWebp) =>
    /\ EncodeOps = <<"png">>
    /\ contentType = MimeHeader("png")
    /\ OutputWithinLimit =>
         /\ DeliveredTransformed
         /\ response.headers["content-type"] = MimeHeader("png")

(***************************************************************************)
(* C10: for an eligible object whose format is absent or auto, the accept  *)
(* header is consulted; the last encode operation is webp and the content  *)
(* type is the image/webp header exactly when the first entry of the       *)
(* header contains image/webp; for a GIF the png operation comes first and *)
(* the webp operation after it; an output within the size limit is         *)
(* delivered, with the image/webp header when webp was forced.             *)
(***************************************************************************)
WebpForced ==
  /\ EncodeOps # <<>>
  /\ EncodeOps[Len(EncodeOps)] = "webp"
  /\ contentType = MimeHeader("webp")

ClaimC10 ==
  (Done /\ Eligible /\ FormatAbsentOrAuto) =>
    /\ accept # Unread
    /\ WebpForced <=> FirstEntryHasWebp
    /\ (objectResponse.ContentType = "image/gif" /\ FirstEntryHasWebp) =>
         EncodeOps = <<"png", "webp">>
    /\ OutputWithinLimit =>
         /\ DeliveredTransformed
         /\ FirstEntryHasWebp => response.headers["content-type"] = MimeHeader("webp")

(***************************************************************************)
(* C11: every webp operation configured with a quality (the one of the     *)
(* accept rule) carries min(max(q, 0), 100) when the quality parameter is  *)
(* the text of an integer q, and 82 when the parameter is absent or is not *)
(* a number.                                                               *)
(***************************************************************************)
\* The text of an integer: an optional minus sign, then decimal digits only.
IsIntegerText(x) ==
  IF ~IsStr(x) THEN FALSE
  ELSE LET body == IF x.v # <<>> /\ Head(x.v) = "-" THEN Tail(x.v) ELSE x.v
       IN  body # <<>> /\ \A i \in 1..Len(body) : IsDigit(body[i])

IntegerOf(x) ==
  IF Head(x.v) = "-" THEN 0 - DecimalValue(Tail(x.v)) ELSE DecimalValue(x.v)

Clamp(n) == IF n < 0 THEN 0 ELSE IF n > 100 THEN 100 ELSE n

\* The quality options handed to the webp encoder, in call order.
QualitiesHandedOver ==
  LET cs == SelectSeq(image.calls,
                      LAMBDA c : c.op = "webp" /\ c.options # Undefined)
  IN  [i \in 1..Len(cs) |-> cs[i].options.quality]

ClaimC11 ==
  \A i \in 1..Len(QualitiesHandedOver) :
    QualitiesHandedOver[i] = IF IsIntegerText(params.quality)
                               THEN Clamp(IntegerOf(params.quality))
                               ELSE DefaultQuality

(***************************************************************************)
(* C12: once the query string has been looked at for width and height, the *)
(* image carries one resize operation when one of the two keys is present  *)
(* and none otherwise (and none before); the fit of that operation is      *)
(* cover when the key cropped is present, with a value or without, and     *)
(* inside when it is absent; withoutEnlargement is true.                   *)
(***************************************************************************)
ResizeDecided == params.width # Unread

ThmC12 ==
  IF ResizeDecided /\ ResizeRequested
    THEN /\ Len(ResizeCalls(image)) = 1
         /\ ResizeCalls(image)[1].options.fit
              = (IF params.cropped # Null THEN "cover" ELSE "inside")
         /\ ResizeCalls(image)[1].options.withoutEnlargement = TRUE
    ELSE ResizeCalls(image) = <<>>

\* "?width&cropped", both keys without a value: resized with fit cover.
WitC12 ==
  /\ Done
  /\ params.width = Str(<<>>)
  /\ params.height = Null
  /\ params.cropped = Str(<<>>)
  /\ Len(ResizeCalls(image)) = 1
  /\ ResizeCalls(image)[1].options.fit = "cover"
  /\ DeliveredTransformed

(***************************************************************************)
(* C13 as claimed: a width or height that is present and is not the text   *)
(* of an integer is null in the resize options, the resize is configured   *)
(* all the same, and when the codec yields an output the callback is       *)
(* called.                                                                 *)
(***************************************************************************)
Present(x) == x \notin {Unread, Null}

\* The one resize operation's options say null for the axis.
AxisUnconstrained(axis) ==
  /\ Len(ResizeCalls(image)) = 1
  /\ ResizeCalls(image)[1].options[axis] = Null

ResponseProduced == Done /\ output # NoOutput => Len(calls) = 1

NoLeadingInteger(x) ==
  LET t    == SkipBlanks(x.v)
      body == IF t # <<>> /\ Head(t) \in {"-", "+"} THEN Tail(t) ELSE t
  IN  body = <<>> \/ ~IsDigit(Head(body))

ThmC14 ==
  (Done /\ output # NoOutput) =>
    IF 4 * ((output.length + 2) \div 3) > 1330000
      THEN DeliveredUnchanged
      ELSE /\ DeliveredTransformed
           /\ response.body.length = 4 * ((output.length + 2) \div 3)

\* An output one byte too long, converted to webp: delivered unchanged.
WitC14 ==
  /\ Done
  /\ output.length = 997501
  /\ contentType = MimeHeader("webp")
  /\ DeliveredUnchanged

(***************************************************************************)
(* C15: when the fetch was sent and the invocation ended without an object *)
(* (the fetch rejected), the callback was never called, the response       *)
(* object is as it was handed over, and one error was logged.              *)
(***************************************************************************)
FetchFailed == Done /\ sent # <<>> /\ ~Fetched

ClaimC16 ==
  FetchFailed =>
    /\ Len(logged) = 1
    /\ DeliveredUnchanged

(***************************************************************************)
(* C17: the response object stays as it was handed over until the          *)
(* transformed response is delivered, and then it differs from it in body  *)
(* (the base64 form of the output), in bodyEncoding ("base64") and, when   *)
(* the format decision gave a content type, in the content-type header,    *)
(* which is that content type; the status, the status description and the  *)
(* other headers are the input's.                                          *)
(***************************************************************************)
ThmC17 ==
  IF Done /\ DeliveredTransformed
    THEN response =
           [original EXCEPT
              !.body = ResponseBody(output),
              !.bodyEncoding = Str("base64"),
              !.headers = [name \in DOMAIN original.headers |->
                             IF name = "content-type" /\ contentType # Null
                               THEN contentType
                               ELSE original.headers[name]]]
    ELSE response = original

\* A GIF delivered as PNG: the content type replaced, the ETag kept.
WitC17 ==
  /\ Done
  /\ DeliveredTransformed
  /\ contentType = MimeHeader("png")
  /\ response.headers["content-type"] = MimeHeader("png")
  /\ response.headers["content-type"] # original.headers["content-type"]
  /\ response.headers["etag"] = original.headers["etag"]
  /\ response.status = "200"

(***************************************************************************)
(* C18 as claimed: a content-type header that differs from the one handed  *)
(* over is the one-entry list with key Content-Type and the MIME type of   *)
(* the last encode operation configured on the image; and an invocation    *)
(* that configured an encode operation, and whose codec yielded an output, *)
(* ends with the header set to that list.                                  *)
(***************************************************************************)
LastEncodeHeader == MimeHeader(EncodeOps[Len(EncodeOps)])

HeaderOverwritten == response.headers["content-type"] # original.headers["content-type"]

ClaimC18 ==
  /\ HeaderOverwritten =>
       /\ EncodeOps # <<>>
       /\ response.headers["content-type"] = LastEncodeHeader
  /\ (Done /\ EncodeOps # <<>> /\ output # NoOutput) =>
       response.headers["content-type"] = LastEncodeHeader

(***************************************************************************)
(* C18 amended: a content-type header that differs from the one handed     *)
(* over belongs to a delivered transformed response and is the one-entry   *)
(* list with key Content-Type and the MIME type of the last encode         *)
(* operation configured on the image; and whenever an encode operation was *)
(* configured and the transformed response is delivered, the header is     *)
(* that list.                                                              *)
(***************************************************************************)
ThmC18 ==
  /\ HeaderOverwritten =>
       /\ Done /\ DeliveredTransformed
       /\ EncodeOps # <<>>
       /\ response.headers["content-type"] = LastEncodeHeader
  /\ (Done /\ DeliveredTransformed /\ EncodeOps # <<>>) =>
       response.headers["content-type"] = LastEncodeHeader

\* A GIF converted to PNG and then to WEBP, delivered as image/webp.
WitC18 ==
  /\ Done
  /\ DeliveredTransformed
  /\ EncodeOps = <<"png", "webp">>
  /\ HeaderOverwritten
  /\ response.headers["content-type"] = MimeHeader("webp")

(***************************************************************************)
(* C19 as claimed: for an image/jpeg or image/png object with a body,      *)
(* requested with no format, width or height and with an accept header     *)
(* that is missing or whose first entry does not contain image/webp, an    *)
(* invocation whose codec yielded an output ends with the transformed      *)
(* response: a base64 body, bodyEncoding base64, the headers as they were  *)
(* handed over, and no operation configured on the image.                  *)
(***************************************************************************)
PlainJpegOrPngRequest ==
  /\ Fetched
  /\ objectResponse.ContentType \in {"image/jpeg", "image/png"}
  /\ ObjectBytes # <<>>
  /\ params.format = Null
  /\ params.width = Null
  /\ params.height = Null
  /\ accept # Unread
  /\ AcceptWithoutWebp

ClaimC19 ==
  (Done /\ PlainJpegOrPngRequest /\ output # NoOutput) =>
    /\ DeliveredTransformed
    /\ response.headers = original.headers
    /\ image.calls = <<>>

(***************************************************************************)
(* C19 amended: for such a request, an invocation whose codec yielded an   *)
(* output of the image made from all the bytes of the object, with no      *)
(* operation configured, ends with the transformed response (the base64    *)
(* form of that output as body, bodyEncoding base64, the headers as they   *)
(* were handed over) when that form is at most 1,330,000 characters long,  *)
(* and with the unchanged response when it is longer.                      *)
(***************************************************************************)
ThmC19 ==
  (Done /\ PlainJpegOrPngRequest /\ output # NoOutput) =>
    /\ output.image = [input |-> ObjectBytes, calls |-> <<>>]
    /\ IF 4 * ((output.length + 2) \div 3) <= 1330000
         THEN /\ DeliveredTransformed
              /\ response.body = ResponseBody(output)
              /\ response.headers = original.headers
         ELSE DeliveredUnchanged

\* A JPEG asked for by a client that accepts text/html only.
WitC19 ==
  /\ Done
  /\ PlainJpegOrPngRequest
  /\ objectResponse.ContentType = "image/jpeg"
  /\ accept = Array(<< AcceptEntry(s_text_html) >>)
  /\ output.image = [input |-> ObjectBytes, calls |-> <<>>]
  /\ DeliveredTransformed
  /\ response.headers = original.headers

(***************************************************************************)
(* C20: every fetch names the bucket captured from the origin host name,   *)
(* and the client that sends it is configured with the region captured     *)
(* from that name (with no region when the name has none).                 *)
(***************************************************************************)
\* The region of the origin: group 2 of the match without its dot.
OriginRegion ==
  LET match == DomainMatch(request.origin.s3.domainName)
  IN  IF match.group2 = Undefined THEN Undefined ELSE Str(Tail(match.group2.v))

ClientRegion(configuration) ==
  IF configuration = Undefined THEN Undefined ELSE configuration.region

ClaimC20 ==
  \A i \in 1..Len(sent) :
    /\ Str(sent[i].Bucket) = DomainMatch(request.origin.s3.domainName).group1
    /\ ClientRegion(sent[i].client) = OriginRegion

(***************************************************************************)
(* C21: the callback is never called more than once; an invocation that    *)
(* has ended is in exactly one of three outcomes: passthrough (one call,   *)
(* with the response as it was handed over, nothing logged), transformed   *)
(* (one call, with the response carrying the base64 body, nothing logged)  *)
(* or no response (no call, one error logged, the response untouched); and *)
(* when nothing was thrown (nothing logged) the callback was called once.  *)
(***************************************************************************)
Passthrough == DeliveredUnchanged /\ logged = <<>>

TransformedOutcome ==
  /\ DeliveredTransformed
  /\ response # original
  /\ logged = <<>>

NoResponse ==
  /\ calls = <<>>
  /\ Len(logged) = 1
  /\ response = original

ThmC21 ==
  /\ Len(calls) <= 1
  /\ ~Done => calls = <<>> /\ logged = <<>>
  /\ Done =>
       /\ Passthrough \/ TransformedOutcome \/ NoResponse
       /\ ~(Passthrough /\ TransformedOutcome)
       /\ ~(Passthrough /\ NoResponse)
       /\ ~(TransformedOutcome /\ NoResponse)
       /\ logged = <<>> => Len(calls) = 1

\* The passthrough of an output over the size limit.
WitC21 ==
  /\ Done
  /\ Passthrough
  /\ output # NoOutput
  /\ Len(calls) = 1

(***************************************************************************)
(* C22: at most one fetch is sent in an invocation, also when it rejects;  *)
(* it is sent only for a response with status "200" and an origin whose    *)
(* host name has the storage pattern with a bucket; and an invocation that *)
(* was passed through for its status, origin or host name sent none.       *)
(***************************************************************************)
ThmC22 ==
  /\ Len(sent) <= 1
  /\ sent # <<>> =>
       /\ original.status = "200"
       /\ ~NoStorageHost(request)
       /\ pc # "start"
  /\ (Done /\ DeliveredUnchanged /\ (original.status # "200" \/ NoStorageHost(request))) =>
       sent = <<>>

\* A fetch that rejected was the only one.
WitC22 ==
  /\ Done
  /\ Len(sent) = 1
  /\ ~Fetched
  /\ original.status = "200"
  /\ ~NoStorageHost(request)

(***************************************************************************)
(* C23: the body of the fetched object is iterated at most once, whatever  *)
(* its content type; so the image of a non-animated GIF is made from all   *)
(* the bytes of the object, also when the body is a single-use stream.     *)
(***************************************************************************)
ClaimC23 ==
  /\ drained <= 1
  /\ (Done /\ StillGifObject) => image.input = ObjectBytes

(***************************************************************************)
(* C24: the codec's output appears once, in the step that ends the         *)
(* invocation, and it is the output of the image as configured then: the   *)
(* encode operations first, then the resize, all configured before         *)
(* toBuffer is awaited and none after; toBuffer is awaited once; and the   *)
(* response object differs from the one handed over only when there is an  *)
(* output, its base64 form is within the limit, and the body is that form. *)
(***************************************************************************)
MaterializedOnce ==
  /\ output # NoOutput => Done /\ output.image = image
  /\ pc = "toBuffer" => output = NoOutput
  /\ image.calls = EncodeCalls(image) \o ResizeCalls(image)
  /\ response # original =>
       /\ OutputWithinLimit
       /\ response.body = ResponseBody(output)

NothingAfterToBuffer ==
  /\ pc' = "toBuffer" => pc = "resize"
  /\ pc = "toBuffer" => image' = image /\ pc' = "done"
  /\ output # NoOutput => output' = output /\ image' = image /\ response' = response

ThmC24 == []MaterializedOnce /\ [][NothingAfterToBuffer]_vars

\* A PNG converted to webp and resized, then materialized and delivered.
WitC24 ==
  /\ Done
  /\ output # NoOutput
  /\ output.image = image
  /\ Len(EncodeCalls(image)) = 1
  /\ Len(ResizeCalls(image)) = 1
  /\ DeliveredTransformed

(***************************************************************************)
(* C25: when an invocation that fetched its object has ended with an error *)
(* logged (sharp, the read of the accept header or toBuffer threw), the    *)
(* callback was never called, one error was logged, and body, bodyEncoding *)
(* and the headers of the response are those handed over.                  *)
(***************************************************************************)
ThrewAfterFetch == Done /\ Fetched /\ logged # <<>>

ThmC25 ==
  ThrewAfterFetch =>
    /\ calls = <<>>
    /\ Len(logged) = 1
    /\ response.body = original.body
    /\ response.bodyEncoding = original.bodyEncoding
    /\ response.headers = original.headers

\* The codec rejected a GIF that was to be delivered as PNG.
WitC25 ==
  /\ ThrewAfterFetch
  /\ logged = <<"codec error">>
  /\ contentType = MimeHeader("png")
  /\ calls = <<>>
  /\ response.headers = original.headers

(***************************************************************************)
(* C26: when the format parameter is a non-empty value other than auto     *)
(* (an explicit format, original included), the quality parameter is never *)
(* read, every encode operation is configured without options, and the     *)
(* format decision made is the one processImageFormat makes for every      *)
(* quality a request can carry.                                            *)
(***************************************************************************)
ExplicitOrOriginal ==
  IF ~IsStr(params.format) THEN FALSE
  ELSE params.format.v # <<>> /\ params.format # Str(s_auto)

ThmC26 ==
  ExplicitOrOriginal =>
    /\ params.quality = Unread
    /\ \A i \in 1..Len(EncodeCalls(image)) : EncodeCalls(image)[i].options = Undefined
    /\ (pc = "resize" /\ params.format # Str(s_original)) =>
         \A q \in Qualities :
           processImageFormat(sharp(image.input), objectResponse, Undefined, q, params.format)
             = [image |-> image, contentType |-> contentType]

\* format=webp: one webp operation with no quality, whatever the request's.
WitC26 ==
  /\ Done
  /\ params.format = Str(s_webp)
  /\ EncodeCalls(image) = << [op |-> "webp", options |-> Undefined] >>
  /\ params.quality = Unread
  /\ DeliveredTransformed

(***************************************************************************)
(* C27: original and auto are compared as written, webp, png, jpeg and jpg *)
(* after lower-casing.  With format=ORIGINAL or format=AUTO no encode      *)
(* operation is configured, the content type stays null and the accept     *)
(* header is never read, for every object; a non-animated GIF is not       *)
(* returned by a format rule but goes to the codec without a PNG           *)
(* conversion, and its output within the size limit is delivered.  A       *)
(* format value that names webp, png, jpeg or jpg in any letter case       *)
(* configures exactly that encoding.                                       *)
(***************************************************************************)
UpperCaseKeyword ==
  params.format \in {Str(<<"O", "R", "I", "G", "I", "N", "A", "L">>), Str(<<"A", "U", "T", "O">>)}

\* sharp(objectBody) has returned and the format step of lines 375-379 is over.
FormatDecided == image.input # <<>> /\ pc # "format"

ThmC27 ==
  /\ UpperCaseKeyword =>
       /\ EncodeOps = <<>>
       /\ contentType = Null
       /\ accept = Unread
       /\ (StillGifObject /\ image.input # <<>>) =>
            /\ pc # "format" => (pc # "done" \/ output # NoOutput \/ logged # <<>>)
            /\ (Done /\ OutputWithinLimit) =>
                 /\ DeliveredTransformed
                 /\ output.image.calls = ResizeCalls(image)
  /\ (FormatDecided /\ EncodingNamed(params.format) # "none") =>
       /\ EncodeOps = << EncodingNamed(params.format) >>
       /\ contentType = MimeHeader(EncodingNamed(params.format))

\* A non-animated GIF asked for as AUTO, with an accept header never read,
\* was handed to the codec with no encode operation and delivered.
WitC27 ==
  /\ Done
  /\ StillGifObject
  /\ params.format = Str(<<"A", "U", "T", "O">>)
  /\ accept = Unread
  /\ EncodeOps = <<>>
  /\ DeliveredTransformed

(***************************************************************************)
(* C28: every width and every height in the options of a resize call       *)
(* configured on the image is null or a number greater than zero.          *)
(***************************************************************************)
AbsentOrPositive(dimension) ==
  IF dimension = Null THEN TRUE
  ELSE dimension.t = "number" /\ dimension.v > 0

ClaimC28 ==
  \A i \in 1..Len(ResizeCalls(image)) :
    /\ AbsentOrPositive(ResizeCalls(image)[i].options.width)
    /\ AbsentOrPositive(ResizeCalls(image)[i].options.height)

(***************************************************************************)
(* C30: when the accept header that the format step read is an empty list  *)
(* of entries, the invocation has ended with the callback never called,    *)
(* one TypeError logged and the response untouched; this only happens with *)
(* a format that is absent or auto.  With format=original or a format      *)
(* naming webp, png, jpeg or jpg the accept header is never read, nothing  *)
(* is thrown at the format step, and an output within the size limit is    *)
(* delivered.                                                              *)
(***************************************************************************)
EmptyAcceptRead == accept = Array(<<>>)

RecognizedOrOriginal ==
  params.format = Str(s_original) \/ EncodingNamed(params.format) # "none"

ThmC30 ==
  /\ EmptyAcceptRead =>
       /\ FormatAbsentOrAuto \/ params.format = Str(<<>>)
       /\ Done
       /\ calls = <<>>
       /\ logged = <<"TypeError">>
       /\ response = original
       /\ output = NoOutput
  /\ RecognizedOrOriginal =>
       /\ accept = Unread
       /\ "TypeError" \notin {logged[i] : i \in 1..Len(logged)}
       /\ FormatDecided => pc \in {"resize", "toBuffer", "done"}
       /\ (Done /\ OutputWithinLimit) => DeliveredTransformed

\* An image/jpeg object, no format parameter, "accept": []: nothing handed
\* back, the TypeError logged.
WitC30 ==
  /\ Done
  /\ objectResponse.ContentType = "image/jpeg"
  /\ params.format = Null
  /\ EmptyAcceptRead
  /\ calls = <<>>
  /\ logged = <<"TypeError">>

(***************************************************************************)
(* C29: of two invocations on distinct events, the one running first until *)
(* it awaits or ends and the other running then, each that has ended has   *)
(* the outcome its own event, the object its fetch resolved with and the   *)
(* output of its codec determine: no response, or one callback with the    *)
(* response object, which is the response as handed over or the response   *)
(* with the base64 body and the content type of its own format decision.   *)
(***************************************************************************)
NoResponseOutcome == [kind |-> "no response"]

ResponseOutcome(resp) == [kind |-> "response", response |-> resp]

\* What an invocation did: the arguments of its callback, and the response
\* object of its event.
OutcomeOf(inv) ==
  IF inv.calls = <<>> THEN [outcome |-> NoResponseOutcome, object |-> inv.response]
  ELSE [outcome |-> ResponseOutcome(inv.calls[1].response), object |-> inv.response]

\* The image a lone invocation configures from its own inputs.
ConfiguredAlone(inv) ==
  LET body     == streamToBuffer(inv.objectResponse.Body,
                                 IF "image/gif" = inv.objectResponse.ContentType
                                   THEN 1 ELSE 0)
      decision == IF preserveOriginalFormat(inv.params.format)
                    THEN [image |-> sharp(body), contentType |-> Null]
                    ELSE processImageFormat(sharp(body), inv.objectResponse, inv.accept,
                                            inv.params.quality, inv.params.format)
  IN  [image |-> IF inv.params.width # Null \/ inv.params.height # Null
                   THEN applyResize(decision.image, inv.params.width,
                                    inv.params.height, inv.params.cropped)
                   ELSE decision.image,
       contentType |-> decision.contentType]

\* The outcome of a lone invocation with these inputs; a fetch that has
\* resolved with nothing was rejected, a codec without output has rejected.
OutcomeAlone(inv) ==
  IF shouldSkipProcessing(inv.request, inv.original) THEN ResponseOutcome(inv.original)
  ELSE IF ExtractThrows(inv.request) THEN NoResponseOutcome
  ELSE IF ~Truthy(extractBucketDetails(inv.request)) THEN ResponseOutcome(inv.original)
  ELSE IF ~ObjectKey(inv.request).ok THEN NoResponseOutcome
  ELSE IF inv.objectResponse = NoObject THEN NoResponseOutcome
  ELSE IF shouldSkipImageProcessing(inv.objectResponse) THEN ResponseOutcome(inv.original)
  ELSE IF isAnimatedGif(inv.objectResponse, 0) THEN ResponseOutcome(inv.original)
  ELSE IF SharpThrows(streamToBuffer(inv.objectResponse.Body,
                                     IF "image/gif" = inv.objectResponse.ContentType
                                       THEN 1 ELSE 0))
         THEN NoResponseOutcome
  ELSE IF /\ ~preserveOriginalFormat(inv.params.format)
          /\ ~IsExplicitFormat(inv.params.format)
          /\ AcceptThrows(inv.accept)
         THEN NoResponseOutcome
  ELSE IF inv.output = NoOutput THEN NoResponseOutcome
  ELSE LET alone        == ConfiguredAlone(inv)
           responseBody == ResponseBody([length |-> inv.output.length,
                                         image |-> alone.image])
       IN  IF isResponseTooLarge(responseBody) THEN ResponseOutcome(inv.original)
           ELSE ResponseOutcome(Transformed(inv.original, alone.contentType, responseBody))

AsAlone(inv) ==
  inv.pc = "done" =>
    /\ Len(inv.calls) <= 1
    /\ OutcomeOf(inv) = [outcome |-> OutcomeAlone(inv),
                         object |-> IF OutcomeAlone(inv) = NoResponseOutcome
                                      THEN inv.original
                                      ELSE OutcomeAlone(inv).response]

ThmC29 == AsAlone(Invocation) /\ AsAlone(parked)

\* The first invocation awaited, the second ran and was delivered as webp,
\* then the first resumed and was delivered with the content type it came
\* with.
WitC29 ==
  /\ Done
  /\ parked.pc = "done"
  /\ parked.invocation = 2
  /\ DeliveredTransformed
  /\ contentType = Null
  /\ response.headers = original.headers
  /\ parked.calls = << [error |-> Null, response |-> parked.response] >>
  /\ parked.response.bodyEncoding = Str("base64")
  /\ parked.contentType = MimeHeader("webp")
  /\ parked.response.headers["content-type"] = MimeHeader("webp")

====
